---- MODULE Spec2Model ----
(***************************************************************************)
(* PaymentProviderController (src/controller/paymentProvider.ts): the      *)
(* webhook handler that reconciles Stripe (card) and PayPal (wallet)       *)
(* payment events with the wish card store.                                *)
(*                                                                         *)
(* One Node.js process handles the requests.  Code between two awaits runs *)
(* without interruption, so every action below is one such stretch: the    *)
(* completion of the awaited call followed by the synchronous code up to   *)
(* the next await.  Requests interleave only at these points.              *)
(***************************************************************************)
EXTENDS Integers, Sequences, FiniteSets, Bags, TLC

\* The number of webhook requests delivered to the process, and how many of
\* them the process handles at once.
MaxRequests == 3
MaxInFlight == 2

Requests == 1..MaxRequests

\* JavaScript's undefined and null.
Undefined == "undefined"
Null == "null"

--------------------------------------------------------------------------
(* The stored entities and the values a webhook body can carry.            *)

UserIds == {"u1"}
WishCardIds == {"i1", "i2"}
AgencyNames == {"a1"}

\* wishCard.belongsTo._id: the agency that owns the wish card.
BelongsTo(wishCardId) == "a1"

Services == {"Stripe", "Paypal"}

OrderApproved == "CHECKOUT.ORDER.APPROVED"

\* The stripe-signature header: absent, or present and accepted or refused by
\* stripeClient.webhooks.constructEvent.
NoSignature == Undefined
GoodSignature == "t=1,v1=good"
BadSignature == "t=1,v1=bad"

\* event.data.object.metadata of a Stripe event, as handlePostCreateIntent
\* stamps it (lines 160-166); a field that was not stamped reads as undefined.
Metadata(userId, wishCardId, agencyName) ==
    [userId |-> userId, wishCardId |-> wishCardId, agencyName |-> agencyName,
     amount |-> "37.50", userDonation |-> "5.00"]

\* The metadata of the events delivered: complete for each wish card, naming
\* a wish card that is not stored, a payer that is not stored, lacking the
\* agency name.
Metadatas ==
    { Metadata("u1", "i1", "a1"), Metadata("u1", "i2", "a1"),
      Metadata("u1", "i9", "a1"), Metadata("u9", "i1", "a1"),
      Metadata("u1", "i2", Undefined) }

\* reference_id of a PayPal purchase unit: a string, here a sequence of symbols
\* in which "%" is the delimiter.  Complete, lacking the agency name, with an
\* empty payer.
ReferenceIds ==
    { <<"u1", "%", "i1", "%", "5.00", "%", "a1">>,
      <<"u1", "%", "i2", "%", "5.00">>,
      <<"%", "i2", "%", "5.00", "%", "a1">> }

\* The bodies delivered.  Of a body only what the code reads is drawn: the
\* metadata of an event whose signature is accepted, the purchase unit of an
\* approved order that reaches the PayPal block.
Body(signature, event_type, metadata, reference_id) ==
    [signature |-> signature, event_type |-> event_type, metadata |-> metadata,
     reference_id |-> reference_id, amountValue |-> "37.50"]

NoMetadata == Metadata(Undefined, Undefined, Undefined)
NoReference == <<>>

Bodies ==
    \* neither provider's signal, or an unsigned PayPal event
    { Body(NoSignature, "payment_intent.succeeded", NoMetadata, NoReference) }
    \cup { Body(NoSignature, OrderApproved, NoMetadata, ref) :
              ref \in ReferenceIds }
    \* a signature that constructEvent refuses: on an empty event, and on a
    \* forged one that carries both providers' fields
    \cup { Body(BadSignature, "payment_intent.succeeded", NoMetadata, NoReference),
           Body(BadSignature, OrderApproved, Metadata("u1", "i1", "a1"),
                <<"u1", "%", "i1", "%", "5.00", "%", "a1">>) }
    \* a Stripe event
    \cup { Body(GoodSignature, "payment_intent.succeeded", m, NoReference) :
              m \in Metadatas }
    \* a signed request whose body is an approved order
    \cup { Body(GoodSignature, OrderApproved, Metadata("u1", "i1", "a1"),
                <<"u1", "%", "i1", "%", "5.00", "%", "a1">>) }

\* Every wishCardId an intent can carry: a metadata value, or a decoded part.
IntentWishCardIds == {"i1", "i2", "i9", Undefined, "", "?"}

--------------------------------------------------------------------------
(* String.prototype.split and array indexing.                              *)

RECURSIVE SplitAcc(_, _, _, _)
SplitAcc(s, sep, parts, cur) ==
    IF s = <<>> THEN Append(parts, cur)
    ELSE IF Head(s) = sep
         THEN SplitAcc(Tail(s), sep, Append(parts, cur), <<>>)
         ELSE SplitAcc(Tail(s), sep, parts, Append(cur, Head(s)))

\* s.split(sep): the parts of s between the delimiters, empty parts included.
Split(s, sep) == SplitAcc(s, sep, <<>>, <<>>)

\* The string a part stands for.  The symbols of ReferenceIds are whole
\* identifiers, so a part of one symbol is that identifier and the empty part
\* is the empty string; any longer part is a string that names nothing.
Text(part) ==
    IF part = <<>> THEN ""
    ELSE IF Len(part) = 1 THEN part[1] ELSE "?"

\* data[k] with JavaScript's index k (from 0): undefined past the end.
At(data, k) == IF k + 1 <= Len(data) THEN Text(data[k + 1]) ELSE Undefined

--------------------------------------------------------------------------
(* The repositories' lookups: the entity's id, or null.                    *)

getUserByObjectId(userId) == IF userId \in UserIds THEN userId ELSE Null
getWishCardByObjectId(wishCardId) ==
    IF wishCardId \in WishCardIds THEN wishCardId ELSE Null
getAgencyByName(agencyName) ==
    IF agencyName \in AgencyNames THEN agencyName ELSE Null

--------------------------------------------------------------------------
(* The decisions of the code, one operator each.                           *)

\* A verification that accepts every signature.
constructEventNeverThrows(signature) == FALSE

\* stripeClient.webhooks.constructEvent returns the event, or throws.
constructEventThrows(signature) == signature # GoodSignature

\* if (signature)
IsStripeRequest(signature) == signature # NoSignature

\* A gate that finds no duplicate.
GateAlwaysPasses(last, wishCardId) == TRUE

\* if (this.lastWishcardDonation !== event.data.object.metadata.wishCardId)
GatePasses(last, wishCardId) == last # wishCardId

\* A gate that passes without remembering the wish card.
GateForgets(last, wishCardId) == last

\* this.lastWishcardDonation = event.data.object.metadata.wishCardId
GateRemembers(last, wishCardId) == wishCardId

\* A PayPal block entered whatever the event type.
IsPaypalRequestAlways(event_type) == TRUE

\* if (req.body.event_type === 'CHECKOUT.ORDER.APPROVED')
IsPaypalRequest(event_type) == event_type = OrderApproved

\* A callback that goes on whatever getAndVerify reports.
VerifyErrorIgnored(error) == FALSE

\* if (error) { this.log.info(error); throw error; }
VerifyErrorThrows(error) == error

\* A status update that leaves the wish card as it was published.
PublishedStatus == "published"

\* { status: 'donated' }
DonatedStatus == "donated"

\* A handleDonation without the check of the wish card.
WishCardNeverMissing(wishCard) == FALSE

\* if (!wishCard) throw, before the status update
WishCardMissing(wishCard) == wishCard = Null

\* if (!user) throw; if (!agency) throw, after the status update
PayerOrAgencyMissing(user, agency) ==
    IF user = Null THEN "UserNotFound"
    ELSE IF agency = Null THEN "AgencyNotFound" ELSE Null

\* A last notification outside any try block.
NotificationCaughtButLast(channel) == channel # "public"

\* try { await Messaging.send...() } catch (error) { this.log.error(error) }
\* around each of the three notifications.
NotificationCaught(channel) == TRUE

Channels == <<"payer", "agency", "public">>

\* An order of the try blocks that leaves the agency out.
AfterChannelButAgency(channel) ==
    CASE channel = "payer" -> "public"
      [] channel = "agency" -> "public"
      [] channel = "public" -> "returning"

\* The pc that follows the attempt of a channel.
AfterChannel(channel) ==
    CASE channel = "payer" -> "agency"
      [] channel = "agency" -> "public"
      [] channel = "public" -> "returning"

\* The intent handlePostWebhook passes to handleDonation on the card path.
StripeIntent(metadata) ==
    [service |-> "Stripe", userId |-> metadata.userId,
     wishCardId |-> metadata.wishCardId, amount |-> metadata.amount,
     userDonation |-> metadata.userDonation, agencyName |-> metadata.agencyName]

\* The intent the getAndVerify callback decodes from the purchase unit.
PaypalIntent(reference_id, amountValue) ==
    LET data == Split(reference_id, "%")
    IN [service |-> "Paypal", userId |-> At(data, 0), wishCardId |-> At(data, 1),
        amount |-> amountValue, userDonation |-> At(data, 2),
        agencyName |-> At(data, 3)]

NoIntent ==
    [service |-> Null, userId |-> Null, wishCardId |-> Null, amount |-> Null,
     userDonation |-> Null, agencyName |-> Null]

--------------------------------------------------------------------------
VARIABLES
    lastWishcardDonation, \* this.lastWishcardDonation
    wishCardStatus,       \* the status of every stored wish card
    statusUpdates,        \* updateWishCardByObjectId calls that took effect, per wish card
    donations,            \* the donation records created, a bag
    request,              \* every request: its body, its position, its locals
    invocations,          \* handleDonation calls, per service and wishCardId
    alive                 \* FALSE once an unhandled rejection ended the process

vars ==
    <<lastWishcardDonation, wishCardStatus, statusUpdates, donations, request,
      invocations, alive>>

\* The locals of handleDonation before it is called.
NoLocals ==
    [intent |-> NoIntent, user |-> Null, wishCard |-> Null, agency |-> Null,
     attempted |-> <<>>, failed |-> {}, updated |-> FALSE, created |-> FALSE,
     outcome |-> Null, error |-> Null]

\* A request that has not arrived yet.  Beside the body, the response status
\* and the locals it records what the card block did: item is the wishCardId
\* of the event constructEvent returned, card is "threw" (constructEvent
\* threw), "skipped" (the gate found a duplicate), "pending",
\* "fulfilled" or "rejected" (the state of the block's handleDonation call),
\* verified is what getAndVerify reported to its callback ("ok" or "error"),
\* and calls counts the request's handleDonation calls.
NoRequest ==
    [pc |-> "idle", signature |-> Undefined, event_type |-> Undefined,
     reference_id |-> <<>>, amountValue |-> Undefined, status |-> 0,
     item |-> Null, card |-> Null, verified |-> Null, calls |-> 0,
     hd |-> NoLocals]

Init ==
    /\ lastWishcardDonation = ""
    /\ wishCardStatus = [i \in WishCardIds |-> "published"]
    /\ statusUpdates = [i \in WishCardIds |-> 0]
    /\ donations = EmptyBag
    /\ request = [r \in Requests |-> NoRequest]
    /\ invocations = [s \in Services |-> [i \in IntentWishCardIds |-> 0]]
    /\ alive = TRUE

--------------------------------------------------------------------------
(* handlePostWebhook, lines 177-243.                                       *)

\* The call this.handleDonation(intent): the request waits for the lookups.
CallHandleDonation(rec, intent) ==
    [rec EXCEPT !.pc = "resolving", !.calls = @ + 1,
                !.hd = [NoLocals EXCEPT !.intent = intent]]

\* catch (error) { return res.status(400).send(...) }
Respond400(rec) ==
    [rec EXCEPT !.pc = "done", !.status = 400, !.reference_id = <<>>,
                !.amountValue = Undefined]

\* Lines 214-242: the PayPal block starts getAndVerify when the body is an
\* approved order, and res.json({received: true}) follows at once.
PaypalBlock(rec) ==
    IF IsPaypalRequest(rec.event_type)
    THEN [rec EXCEPT !.pc = "verifying", !.status = 200]
    ELSE [rec EXCEPT !.pc = "done", !.status = 200, !.reference_id = <<>>,
                     !.amountValue = Undefined]

Count(intent) ==
    [invocations EXCEPT ![intent.service][intent.wishCardId] = @ + 1]

\* The card block, lines 181-211, for a request with a stripe-signature
\* header; metadata is event.data.object.metadata of the event constructEvent
\* returns when it does not throw.
StripeBlock(r, rec, metadata) ==
    IF constructEventThrows(rec.signature)
    THEN
         /\ request' = [request EXCEPT ![r] =
                           Respond400([rec EXCEPT !.card = "threw"])]
         /\ UNCHANGED <<lastWishcardDonation, invocations>>
    ELSE LET seen == [rec EXCEPT !.item = metadata.wishCardId]
         IN IF GatePasses(lastWishcardDonation, metadata.wishCardId)
            THEN /\ lastWishcardDonation' =
                       GateRemembers(lastWishcardDonation, metadata.wishCardId)
                 /\ request' = [request EXCEPT ![r] =
                       CallHandleDonation([seen EXCEPT !.card = "pending"],
                                          StripeIntent(metadata))]
                 /\ invocations' = Count(StripeIntent(metadata))
            ELSE /\ request' = [request EXCEPT ![r] =
                                   PaypalBlock([seen EXCEPT !.card = "skipped"])]
                 /\ UNCHANGED <<lastWishcardDonation, invocations>>

\* The requests that arrived and whose pipeline has not ended.
InFlight == {q \in Requests : request[q].pc \notin {"idle", "done"}}

\* A request arrives and runs to its first await or to its response.
\* Requests are numbered in their order of arrival.
HandlePostWebhook(r) ==
    /\ alive
    /\ request[r].pc = "idle"
    /\ IF r = 1 THEN TRUE ELSE request[r - 1].pc # "idle"
    /\ Cardinality(InFlight) < MaxInFlight
    /\ \E body \in Bodies :
        LET rec == [NoRequest EXCEPT !.signature = body.signature,
                                     !.event_type = body.event_type,
                                     !.reference_id = body.reference_id,
                                     !.amountValue = body.amountValue]
        IN IF IsStripeRequest(body.signature)
           THEN StripeBlock(r, rec, body.metadata)
           ELSE /\ request' = [request EXCEPT ![r] = PaypalBlock(rec)]
                /\ UNCHANGED <<lastWishcardDonation, invocations>>
    /\ UNCHANGED <<wishCardStatus, statusUpdates, donations, alive>>

\* The pipeline of the request has ended: its locals are gone.
Finished(rec) ==
    [rec EXCEPT !.pc = "done", !.reference_id = <<>>, !.amountValue = Undefined,
                !.hd = NoLocals]

\* throw inside the async getAndVerify callback: nothing awaits its promise,
\* so the rejection is unhandled; the runtime logs it or ends the process.
UnhandledRejection(r) ==
    /\ request' = [request EXCEPT ![r] = Finished(@)]
    /\ \E crash \in BOOLEAN : alive' = ~crash

\* The getAndVerify callback, lines 217-238.
VerifyCallback(r) ==
    /\ alive
    /\ request[r].pc = "verifying"
    /\ \E error \in BOOLEAN :
        LET rec == [request[r] EXCEPT
                       !.verified = IF error THEN "error" ELSE "ok"]
        IN
        IF VerifyErrorThrows(error)
        THEN /\ request' = [request EXCEPT ![r] = Finished(rec)]
             /\ \E crash \in BOOLEAN : alive' = ~crash
             /\ UNCHANGED invocations
        ELSE LET intent == PaypalIntent(request[r].reference_id,
                                        request[r].amountValue)
             IN /\ request' = [request EXCEPT ![r] =
                       CallHandleDonation(
                           [rec EXCEPT !.reference_id = <<>>,
                                       !.amountValue = Undefined], intent)]
                /\ invocations' = Count(intent)
                /\ UNCHANGED alive
    /\ UNCHANGED <<lastWishcardDonation, wishCardStatus, statusUpdates,
                   donations>>

--------------------------------------------------------------------------
(* handleDonation, lines 55-137.                                           *)

\* A throw that is swallowed: the promise is fulfilled all the same.
RejectSwallowed(rec, error) ==
    [rec EXCEPT !.pc = "returning", !.hd.outcome = "fulfilled", !.hd.error = error]

\* throw new Error(...): the promise of handleDonation is rejected.
Reject(rec, error) ==
    [rec EXCEPT !.pc = "returning", !.hd.outcome = "rejected", !.hd.error = error]

\* Lines 56-64: the three lookups, then the check of the wish card.
GetEntities(r) ==
    /\ alive
    /\ request[r].pc = "resolving"
    /\ LET intent == request[r].hd.intent
           rec == [request[r] EXCEPT
                      !.hd.user = getUserByObjectId(intent.userId),
                      !.hd.wishCard = getWishCardByObjectId(intent.wishCardId),
                      !.hd.agency = getAgencyByName(intent.agencyName)]
       IN request' = [request EXCEPT ![r] =
              IF WishCardMissing(rec.hd.wishCard)
              THEN Reject(rec, "WishCardNotFound")
              ELSE [rec EXCEPT !.pc = "updating"]]
    /\ UNCHANGED <<lastWishcardDonation, wishCardStatus, statusUpdates,
                   donations, invocations, alive>>

\* Lines 66-80: updateWishCardByObjectId(wishCard._id, {status: 'donated'}),
\* which the repository may refuse, then the checks of the payer and the agency.
UpdateWishCard(r) ==
    /\ alive
    /\ request[r].pc = "updating"
    /\ LET hd == request[r].hd
       IN IF hd.wishCard = Null
          THEN \* wishCard._id of null
               /\ request' = [request EXCEPT ![r] = Reject(@, "TypeError")]
               /\ UNCHANGED <<wishCardStatus, statusUpdates>>
          ELSE \E ok \in BOOLEAN :
               IF ok
               THEN /\ wishCardStatus' =
                          [wishCardStatus EXCEPT ![hd.wishCard] = DonatedStatus]
                    /\ statusUpdates' =
                          [statusUpdates EXCEPT ![hd.wishCard] = @ + 1]
                    /\ LET rec == [request[r] EXCEPT !.hd.updated = TRUE]
                           miss == PayerOrAgencyMissing(hd.user, hd.agency)
                       IN request' = [request EXCEPT ![r] =
                              IF miss # Null THEN Reject(rec, miss)
                              ELSE [rec EXCEPT !.pc = "creating"]]
               ELSE /\ request' = [request EXCEPT ![r] = Reject(@, "UpdateError")]
                    /\ UNCHANGED <<wishCardStatus, statusUpdates>>
    /\ UNCHANGED <<lastWishcardDonation, donations, invocations, alive>>

\* Lines 82-87: createNewDonation, which the repository may refuse.
CreateDonation(r) ==
    /\ alive
    /\ request[r].pc = "creating"
    /\ LET hd == request[r].hd
       IN \E ok \in BOOLEAN :
          IF ok
          THEN /\ donations' = donations (+) SetToBag({
                     [donationFrom |-> hd.user,
                      donationTo |-> BelongsTo(hd.wishCard),
                      donationCard |-> hd.wishCard,
                      donationPrice |-> hd.intent.amount]})
               /\ request' = [request EXCEPT ![r].pc = "payer",
                                             ![r].hd.created = TRUE]
          ELSE /\ request' = [request EXCEPT ![r] = Reject(@, "CreateError")]
               /\ UNCHANGED donations
    /\ UNCHANGED <<lastWishcardDonation, wishCardStatus, statusUpdates,
                   invocations, alive>>

\* One of the three try blocks, lines 89-136: the message is sent or the
\* sender throws; a caught error is logged and the next block follows.
Notify(r, channel) ==
    /\ alive
    /\ request[r].pc = channel
    /\ \E sent \in BOOLEAN :
        LET rec == [request[r] EXCEPT
                       !.hd.attempted = Append(@, channel),
                       !.hd.failed = IF sent THEN @ ELSE @ \cup {channel}]
            next == AfterChannel(channel)
        IN request' = [request EXCEPT ![r] =
               IF sent \/ NotificationCaught(channel)
               THEN [rec EXCEPT !.pc = next,
                                !.hd.outcome = IF next = "returning"
                                               THEN "fulfilled" ELSE @]
               ELSE Reject(rec, "NotificationError")]
    /\ UNCHANGED <<lastWishcardDonation, wishCardStatus, statusUpdates,
                   donations, invocations, alive>>

\* Lines 89-102
SendDonationConfirmationEmail(r) == Notify(r, "payer")
\* Lines 104-117
SendAgencyDonationEmail(r) == Notify(r, "agency")
\* Lines 119-136
SendDiscordDonationNotification(r) == Notify(r, "public")

\* handleDonation has settled and its caller resumes: the card block of
\* handlePostWebhook (lines 198-210, then 214-242) or the getAndVerify
\* callback (line 229), whose own promise nothing awaits.
ReturnFromHandleDonation(r) ==
    /\ alive
    /\ request[r].pc = "returning"
    /\ LET hd == request[r].hd
           rec == [request[r] EXCEPT !.hd = NoLocals]
       IN IF hd.intent.service = "Stripe"
          THEN /\ request' = [request EXCEPT ![r] =
                     IF hd.outcome = "rejected"
                     THEN Respond400([rec EXCEPT !.card = "rejected"])
                     ELSE PaypalBlock([rec EXCEPT !.card = "fulfilled"])]
               /\ UNCHANGED alive
          ELSE IF hd.outcome = "rejected"
               THEN UnhandledRejection(r)
               ELSE /\ request' = [request EXCEPT ![r] = Finished(@)]
                    /\ UNCHANGED alive
    /\ UNCHANGED <<lastWishcardDonation, wishCardStatus, statusUpdates,
                   donations, invocations>>

--------------------------------------------------------------------------
Next ==
    \E r \in Requests :
        \/ HandlePostWebhook(r)
        \/ VerifyCallback(r)
        \/ GetEntities(r)
        \/ UpdateWishCard(r)
        \/ CreateDonation(r)
        \/ SendDonationConfirmationEmail(r)
        \/ SendAgencyDonationEmail(r)
        \/ SendDiscordDonationNotification(r)
        \/ ReturnFromHandleDonation(r)

Spec == Init /\ [][Next]_vars

--------------------------------------------------------------------------
(* What the claims speak of.                                               *)

\* The donation records of a wish card.
DonationCount(wishCardId) ==
    LET of == {d \in BagToSet(donations) : d.donationCard = wishCardId}
    IN BagCardinality([d \in of |-> donations[d]])

\* handleDonation calls for a wishCardId, from both paths.
Invocations(wishCardId) ==
    invocations["Stripe"][wishCardId] + invocations["Paypal"][wishCardId]

\* The request is inside handleDonation (its promise has not been consumed).
InHandleDonation(r) ==
    request[r].pc \in {"resolving", "updating", "creating", "payer", "agency",
                       "public", "returning"}

\* The request reached the gate: constructEvent returned its event.
ReachedGate(r) == request[r].card \in {"skipped", "pending", "fulfilled", "rejected"}

\* Request r arrives in this step.
Arrives(r) == request[r].pc = "idle" /\ request'[r].pc # "idle"

\* Requests r < q are verified Stripe events for the same wishCardId, and no
\* verified Stripe event for another one arrived between them.
InSuccession(r, q) ==
    /\ r < q
    /\ ReachedGate(r) /\ ReachedGate(q)
    /\ request[r].item = request[q].item
    /\ \A k \in (r + 1)..(q - 1) :
          ReachedGate(k) => request[k].item = request[r].item

--------------------------------------------------------------------------
\* The verified Stripe events for x that open a succession of them.
FirstOfSuccession(x) ==
    {q \in Requests : /\ ReachedGate(q) /\ request[q].item = x
                      /\ \A r \in Requests : ~InSuccession(r, q)}

\* C1: on the card path, a verified event for the wish card of the verified
\* event before it (none for another wish card in between) does not call
\* handleDonation again: the card block calls it once for each succession of
\* events for one wish card.  When the one call there was succeeds and the
\* wallet path made none, the wish card has exactly one status update and
\* exactly one donation record.
C1_SuccessiveCardEventCommitsOnce ==
    /\ \A r, q \in Requests : InSuccession(r, q) => request[q].card = "skipped"
    /\ \A x \in IntentWishCardIds :
          invocations["Stripe"][x] = Cardinality(FirstOfSuccession(x))
    /\ \A x \in WishCardIds :
          (invocations["Stripe"][x] = 1 /\ invocations["Paypal"][x] = 0) =>
             /\ statusUpdates[x] <= 1
             /\ DonationCount(x) <= 1
             /\ (\E r \in Requests : request[r].item = x /\ request[r].card = "fulfilled")
                   => statusUpdates[x] = 1 /\ DonationCount(x) = 1

\* The same event was delivered twice in succession; the first was committed.
C1_Witness ==
    \E r, q \in Requests :
        /\ InSuccession(r, q)
        /\ request[r].card = "fulfilled" /\ request[q].pc = "done"
        /\ request[r].item = "i1"
        /\ statusUpdates["i1"] = 1 /\ DonationCount("i1") = 1

\* C2: whatever is delivered, a wish card has at most one donation record and
\* at most one status update.
C2_AtMostOneCommitPerItem ==
    \A x \in WishCardIds : DonationCount(x) <= 1 /\ statusUpdates[x] <= 1

\* C2 on the card path alone: a wish card the wallet path never called
\* handleDonation for has at most one donation record (the deliveries X, Y, X
\* create two for X).
C2_CardPathAtMostOnce ==
    \A x \in WishCardIds : invocations["Paypal"][x] = 0 => DonationCount(x) <= 1

\* C3: the gate runs before every commit, whichever the provider: as long as
\* handleDonation was called for no other wishCardId, it is called at most
\* once for a wish card, which has at most one status update and one record.
C3_GateBeforeEveryCommit ==
    \A x \in WishCardIds :
        (\A y \in IntentWishCardIds \ {x} : Invocations(y) = 0) =>
            /\ Invocations(x) <= 1
            /\ statusUpdates[x] <= 1
            /\ DonationCount(x) <= 1

\* C4: a handleDonation call whose payer, wish card or agency did not resolve
\* has mutated nothing, and is rejected when it returns.
C4_NoMutationOnResolutionMiss ==
    \A r \in Requests :
        LET hd == request[r].hd
        IN (request[r].pc \in {"updating", "creating", "payer", "agency",
                               "public", "returning"}
            /\ (hd.user = Null \/ hd.wishCard = Null \/ hd.agency = Null))
           => /\ ~hd.updated /\ ~hd.created
              /\ request[r].pc = "returning" => hd.outcome = "rejected"

\* The steps of request r inside handleDonation leave the store alone.
NoMutationBy(r) ==
    (InHandleDonation(r) /\ request'[r] # request[r])
        => UNCHANGED <<wishCardStatus, statusUpdates, donations>>

\* The intent of request r names no stored wish card.
ItemUnresolved(r) ==
    InHandleDonation(r) /\ request[r].hd.intent.wishCardId \notin WishCardIds

\* C5: a handleDonation call whose wishCardId names no stored wish card is
\* rejected with the wish card's not-found error once the lookups are done,
\* attempts no notification, and none of its steps changes a wish card's
\* status or creates a donation record.
C5_UnknownItemFailsWithoutMutation ==
    [][\A r \in Requests :
          /\ ItemUnresolved(r) => NoMutationBy(r)
          /\ (ItemUnresolved(r) /\ request[r].pc # "resolving") =>
                /\ request[r].pc = "returning"
                /\ request[r].hd.outcome = "rejected"
                /\ request[r].hd.error = "WishCardNotFound"
                /\ ~request[r].hd.updated /\ ~request[r].hd.created
                /\ request[r].hd.attempted = <<>>]_vars

\* A call for the wish card "i9", which is not stored, has been rejected.
C5_Witness ==
    \E r \in Requests :
        /\ request[r].pc = "returning"
        /\ request[r].hd.intent.wishCardId = "i9"
        /\ request[r].hd.error = "WishCardNotFound"

\* The store, the gate's slot and the calls made are as they were.
NothingDone ==
    UNCHANGED <<lastWishcardDonation, wishCardStatus, statusUpdates, donations,
                invocations>>

\* C6: a request whose stripe-signature header fails verification is answered
\* 400 in the step it arrives in, which mutates nothing, leaves the gate's
\* slot alone, calls handleDonation on neither path and does not start the
\* PayPal verification, whatever the body's event type.
C6_BadSignatureRejected ==
    [][\A r \in Requests :
          (Arrives(r) /\ request'[r].signature = BadSignature) =>
              /\ request'[r].pc = "done"
              /\ request'[r].status = 400
              /\ request'[r].calls = 0
              /\ NothingDone]_vars

\* A forged request, whose body is an approved order, was answered 400.
C6_Witness ==
    \E r \in Requests :
        /\ request[r].signature = BadSignature
        /\ request[r].event_type = OrderApproved
        /\ request[r].status = 400

\* C7: every response is 200, except the 400 sent to a request whose
\* stripe-signature header failed verification.
C7_AcknowledgedUnlessBadSignature ==
    \A r \in Requests :
        request[r].status # 0 =>
            request[r].status =
                IF request[r].signature = BadSignature THEN 400 ELSE 200

\* C8: once the status is updated and the donation record created, each of the
\* three notifications is attempted, in order, whichever of them fail, and
\* handleDonation is fulfilled.
C8_NotificationFailureIsolated ==
    \A r \in Requests :
        LET hd == request[r].hd
        IN (InHandleDonation(r) /\ hd.created) =>
              /\ hd.updated
              /\ hd.failed \subseteq {hd.attempted[k] : k \in DOMAIN hd.attempted}
              /\ request[r].pc = "payer" => hd.attempted = <<>>
              /\ request[r].pc = "agency" => hd.attempted = <<"payer">>
              /\ request[r].pc = "public" => hd.attempted = <<"payer", "agency">>
              /\ request[r].pc = "returning" =>
                    /\ hd.attempted = Channels
                    /\ hd.outcome = "fulfilled"
                    /\ hd.error = Null

\* All three notifications failed and handleDonation is fulfilled.
C8_Witness ==
    \E r \in Requests :
        /\ request[r].pc = "returning"
        /\ request[r].hd.created
        /\ request[r].hd.failed = {"payer", "agency", "public"}
        /\ request[r].hd.outcome = "fulfilled"

\* C9: a request with no stripe-signature header whose event_type is not
\* CHECKOUT.ORDER.APPROVED is answered 200 in the step it arrives in, which
\* calls handleDonation on neither path, mutates nothing and leaves the
\* gate's slot alone.
C9_NoSignalIsNoOp ==
    [][\A r \in Requests :
          (/\ Arrives(r)
           /\ request'[r].signature = NoSignature
           /\ request'[r].event_type # OrderApproved) =>
              /\ request'[r].pc = "done"
              /\ request'[r].status = 200
              /\ request'[r].calls = 0
              /\ request'[r].hd = NoLocals
              /\ NothingDone]_vars

\* Such a request was answered after another one had set the gate's slot.
C9_Witness ==
    \E r \in Requests :
        /\ request[r].signature = NoSignature
        /\ request[r].event_type # OrderApproved
        /\ request[r].status = 200
        /\ lastWishcardDonation # ""

\* The intent lacks a field: undefined (no such metadata field, no such part
\* of reference_id) or the empty string.
Malformed(intent) ==
    \E f \in {"userId", "wishCardId", "agencyName"} : intent[f] \in {Undefined, ""}

\* C10: a handleDonation call whose intent lacks a field marks no wish card
\* donated and creates no donation record.
C10_MalformedIntentMutatesNothing ==
    \A r \in Requests :
        (InHandleDonation(r) /\ Malformed(request[r].hd.intent)) =>
            ~request[r].hd.updated /\ ~request[r].hd.created

--------------------------------------------------------------------------
\* The handleDonation calls a service made, over every wishCardId.
RECURSIVE CallsOver(_, _)
CallsOver(service, ids) ==
    IF ids = {} THEN 0
    ELSE LET x == CHOOSE y \in ids : TRUE
         IN invocations[service][x] + CallsOver(service, ids \ {x})

\* The request's handleDonation call that the card block made, if any.
CardCalls(r) ==
    IF request[r].card \in {"pending", "fulfilled", "rejected"} THEN 1 ELSE 0

\* C11: on the wallet path handleDonation is called only for a body whose
\* event_type is CHECKOUT.ORDER.APPROVED and whose verification reported no
\* error, once for each such report; a request whose verification reported an
\* error has ended without a wallet call, so no status update, donation record
\* or notification comes from it.
C11_WalletCommitOnlyWhenVerified ==
    /\ \A r \in Requests :
          /\ (InHandleDonation(r) /\ request[r].hd.intent.service = "Paypal") =>
                /\ request[r].event_type = OrderApproved
                /\ request[r].verified = "ok"
          /\ request[r].verified # Null => request[r].event_type = OrderApproved
          /\ request[r].verified = "error" =>
                /\ request[r].pc = "done"
                /\ request[r].hd = NoLocals
                /\ request[r].calls = CardCalls(r)
          /\ request[r].verified # "ok" => request[r].calls = CardCalls(r)
    /\ CallsOver("Paypal", IntentWishCardIds) =
          Cardinality({r \in Requests : request[r].verified = "ok"})

\* The verification of an unsigned approved order for "i1" reported an error:
\* no call was made and the store is as it was.
C11_Witness ==
    \E r \in Requests :
        /\ request[r].verified = "error"
        /\ request[r].signature = NoSignature
        /\ request[r].calls = 0
        /\ Invocations("i1") = 0 /\ Invocations("i2") = 0
        /\ \A x \in WishCardIds : wishCardStatus[x] = "published"
        /\ donations = EmptyBag

--------------------------------------------------------------------------
\* C12: the gate's comparison and its assignment to lastWishcardDonation are
\* one step.  A verified Stripe event passes the gate exactly when the slot
\* differs from its wishCardId as the step begins, and the slot holds that
\* wishCardId as the step ends; so an event that arrives while the call of the
\* event before it for the same wish card is still pending (no event for
\* another wish card between them) is skipped and makes no call.
C12_GateCheckAndSetAtomic ==
    [][\A q \in Requests :
          (Arrives(q) /\ ReachedGate(q)') =>
              /\ request'[q].card = "pending" <=>
                    lastWishcardDonation # request'[q].item
              /\ lastWishcardDonation' = request'[q].item
              /\ \A r \in Requests :
                    (/\ request[r].card = "pending"
                     /\ request[r].item = request'[q].item
                     /\ InSuccession(r, q)') =>
                        /\ request'[q].card = "skipped"
                        /\ request'[q].calls = 0
                        /\ invocations' = invocations]_vars

\* While the call for "i1" of one request is pending, the request after it
\* carried the same event and was skipped.
C12_Witness ==
    \E r, q \in Requests :
        /\ InSuccession(r, q)
        /\ request[r].card = "pending" /\ InHandleDonation(r)
        /\ request[q].card = "skipped" /\ request[q].status = 200
        /\ request[r].item = "i1"
        /\ invocations["Stripe"]["i1"] = 1

--------------------------------------------------------------------------
\* The errors thrown before the first notification.
CommitErrors ==
    {"WishCardNotFound", "TypeError", "UpdateError", "UserNotFound",
     "AgencyNotFound", "CreateError"}

\* C13: within one handleDonation call the wish card is marked donated before
\* the donation record is created, the record is created before any
\* notification is attempted, and the notifications are attempted in the
\* order payer, agency, public; a call whose status update or record creation
\* failed attempts none.
C13_StepsInOrder ==
    \A r \in Requests :
        LET hd == request[r].hd
        IN /\ hd.created =>
                 /\ hd.updated
                 /\ wishCardStatus[hd.wishCard] = "donated"
                 /\ DonationCount(hd.wishCard) >= 1
           /\ request[r].pc = "creating" => hd.updated /\ ~hd.created
           /\ request[r].pc = "updating" => ~hd.updated /\ ~hd.created
           /\ hd.attempted # <<>> => hd.created
           /\ Len(hd.attempted) <= Len(Channels)
           /\ hd.attempted = SubSeq(Channels, 1, Len(hd.attempted))
           /\ request[r].pc \in {"payer", "agency", "public"} =>
                 /\ hd.created
                 /\ Len(hd.attempted) < Len(Channels)
                 /\ request[r].pc = Channels[Len(hd.attempted) + 1]
           /\ hd.error \in CommitErrors =>
                 /\ ~hd.created
                 /\ hd.attempted = <<>>
                 /\ request[r].pc = "returning"

\* A call that updated the status, created the record and sent the three
\* notifications, none of which failed.
C13_Witness ==
    \E r \in Requests :
        /\ request[r].pc = "returning"
        /\ request[r].hd.updated /\ request[r].hd.created
        /\ request[r].hd.attempted = <<"payer", "agency", "public">>
        /\ request[r].hd.failed = {}

--------------------------------------------------------------------------
\* C14: a request is answered 200 only when its pipeline has ended: its
\* verification is reported and no handleDonation call of it is pending or
\* still to be made.
C14_RespondsAfterPipeline ==
    \A r \in Requests :
        request[r].status = 200 =>
            /\ request[r].pc = "done"
            /\ request[r].event_type = OrderApproved => request[r].verified # Null

--------------------------------------------------------------------------
\* C15: the gate skips an event only for a wish card whose commit succeeded:
\* a verified Stripe event that arrives after the call of the event before it
\* for the same wish card was rejected (no event for another wish card
\* between them) is not skipped.
C15_NoSkipAfterFailedCommit ==
    [][\A r, q \in Requests :
          (/\ Arrives(q) /\ ReachedGate(q)'
           /\ request[r].card = "rejected"
           /\ request[r].item \in WishCardIds
           /\ InSuccession(r, q)') =>
              request'[q].card # "skipped"]_vars

--------------------------------------------------------------------------
\* C16: no step reverts a wish card's 'donated' status.  When
\* createNewDonation fails after the status update, the step creates no
\* donation record and leaves the status 'donated', and handleDonation is
\* rejected with that error: the card block then answers 400, and the
\* wallet callback makes nothing more of the request.
C16_NoRollbackAfterStatusUpdate ==
    [][/\ \A x \in WishCardIds :
             wishCardStatus[x] = "donated" => wishCardStatus'[x] = "donated"
       /\ \A x \in WishCardIds : statusUpdates'[x] >= statusUpdates[x]
       /\ \A r \in Requests :
             /\ (request[r].pc = "creating" /\ request'[r].pc = "returning") =>
                   /\ UNCHANGED <<donations, wishCardStatus, statusUpdates>>
                   /\ wishCardStatus'[request[r].hd.wishCard] = "donated"
                   /\ request'[r].hd.updated /\ ~request'[r].hd.created
                   /\ request'[r].hd.outcome = "rejected"
                   /\ request'[r].hd.error = "CreateError"
                   /\ request'[r].hd.attempted = <<>>
             /\ (/\ request[r].pc = "returning"
                 /\ request[r].hd.error = "CreateError"
                 /\ request'[r] # request[r]) =>
                   /\ UNCHANGED <<donations, wishCardStatus, statusUpdates>>
                   /\ request'[r].pc = "done"
                   /\ request[r].hd.intent.service = "Stripe" =>
                         request'[r].status = 400 /\ request'[r].card = "rejected"]_vars

\* createNewDonation failed for "i2": the wish card is donated and has no
\* donation record.
C16_Witness ==
    \E r \in Requests :
        /\ request[r].pc = "returning"
        /\ request[r].hd.error = "CreateError"
        /\ request[r].hd.wishCard = "i2"
        /\ wishCardStatus["i2"] = "donated"
        /\ DonationCount("i2") = 0

--------------------------------------------------------------------------
\* C17: one request calls handleDonation at most once: not from the card
\* block and again from the getAndVerify callback.
C17_AtMostOneCommitPerRequest ==
    \A r \in Requests : request[r].calls <= 1

--------------------------------------------------------------------------
\* C18: a wish card that has a donation record has the status 'donated'.
C18_RecordOnlyIfDonated ==
    \A x \in WishCardIds :
        DonationCount(x) >= 1 =>
            /\ wishCardStatus[x] = "donated"
            /\ statusUpdates[x] >= DonationCount(x)

\* "i2" has a donation record and is donated; "i1" has neither.
C18_Witness ==
    /\ DonationCount("i2") = 1
    /\ wishCardStatus["i2"] = "donated"
    /\ DonationCount("i1") = 0
    /\ wishCardStatus["i1"] = "published"

====
